---- MODULE Spec2Model ----
(***************************************************************************)
(* A model of nnet3/nnet-training.{h,cc}: the objective-function engine    *)
(* (ComputeObjectiveFunction), the per-stream statistics aggregator        *)
(* (ObjectiveFunctionInfo) and the minibatch driver (NnetTrainer).         *)
(*                                                                         *)
(* Numbers.  Matrix elements are integers.  The BaseFloat/double scalars   *)
(* of the program (tot_weight, tot_objf and the four accumulators) are     *)
(* held exactly, in units of one half, so that the factor -0.5 of the      *)
(* quadratic objective is exact: the scalar x is stored as 2x.  A quotient *)
(* of two scalars is a reduced fraction <<num, den>>, with den = 0 for the *)
(* IEEE results of a division by zero (<<0,0>> NaN, <<1,0>> +inf,          *)
(* <<-1,0>> -inf).  Floating-point rounding is not modelled.               *)
(***************************************************************************)
EXTENDS Integers, Sequences, FiniteSets, TLC

(***************************************************************************)
(* Bounds of the model.                                                    *)
(***************************************************************************)
\* print_interval is drawn from 1..MaxInterval
MaxInterval == 2
\* no UpdateStats call is made once this many have been made
MaxMinibatches == 4
\* an example carries 1..MaxIo io entries
MaxIo == 2
\* a matrix drawn for a direct ComputeObjectiveFunction call has at most
\* this many elements
MaxElems == 4
\* a directly driven ObjectiveFunctionInfo gets at most this many UpdateStats
\* calls, with minibatch counters from -1 up to this number
MaxUpdates == 3

\* the element values matrices are drawn from
Vals == {0, 1}

(***************************************************************************)
(* Arithmetic helpers.                                                     *)
(***************************************************************************)
Abs(x) == IF x < 0 THEN -x ELSE x

Sign(x) == IF x < 0 THEN -1 ELSE IF x > 0 THEN 1 ELSE 0

RECURSIVE Gcd(_, _)
Gcd(a, b) == IF b = 0 THEN a ELSE Gcd(b, a % b)

\* C++ integer division: the quotient truncated towards zero (b > 0)
IntDiv(a, b) == IF a >= 0 THEN a \div b ELSE -((-a) \div b)

\* an int converted to a scalar
FromInt(n) == 2 * n

\* -0.5 * x for an integer x, as a scalar
MinusHalfTimes(x) == -x

\* a / b of two scalars, as IEEE division gives it
Quotient(a, b) ==
  IF b = 0 THEN <<Sign(a), 0>>
  ELSE LET g == Gcd(Abs(a), Abs(b))
       IN  <<Sign(b) * (a \div g), Abs(b) \div g>>

RECURSIVE SumSeq(_)
SumSeq(s) == IF s = <<>> THEN 0 ELSE Head(s) + SumSeq(Tail(s))

(***************************************************************************)
(* Dense matrices: a sequence of rows, each a sequence of elements.        *)
(***************************************************************************)
NumRows(m) == Len(m)

NumCols(m) == Len(m[1])

MatricesOf(r, c) == [1..r -> [1..c -> Vals]]

ZeroMatrix(r, c) == [i \in 1..r |-> [j \in 1..c |-> 0]]

\* CuMatrixBase::Sum
Sum(m) == SumSeq([i \in 1..Len(m) |-> SumSeq(m[i])])

\* this->AddMat(alpha, A): *this += alpha * A
AddMat(this, alpha, A) ==
  [i \in 1..NumRows(this) |-> [j \in 1..NumCols(this) |->
     this[i][j] + alpha * A[i][j]]]

\* TraceMatMat(A, B, kTrans) = trace(A B^T) = sum_ij A(i,j) B(i,j)
TraceMatMat(A, B) ==
  SumSeq([i \in 1..NumRows(A) |->
     SumSeq([j \in 1..NumCols(A) |-> A[i][j] * B[i][j]])])

(***************************************************************************)
(* Sparse matrices: a sequence of rows, each a sequence of <<index, value>>*)
(* pairs with 0-based column indexes.                                      *)
(***************************************************************************)
\* CuSparseMatrix::Sum
SparseSum(sm) ==
  SumSeq([i \in 1..Len(sm) |->
     SumSeq([k \in 1..Len(sm[i]) |-> sm[i][k][2]])])

\* TraceMatSmat(A, B, kTrans) = sum over the elements (i, j, v) of B of A(i,j) v
TraceMatSmat(A, sm) ==
  SumSeq([i \in 1..Len(sm) |->
     SumSeq([k \in 1..Len(sm[i]) |-> A[i][sm[i][k][1] + 1] * sm[i][k][2]])])

\* The dense r x c matrix CuSparseMatrix::CopyToMat writes: zero, then every
\* stored element at its place.
SparseCopyToMat(sm, r, c) ==
  [i \in 1..r |-> [j \in 1..c |->
     IF \E k \in 1..Len(sm[i]) : sm[i][k][1] = j - 1
     THEN LET k == CHOOSE k \in 1..Len(sm[i]) : sm[i][k][1] = j - 1
          IN  sm[i][k][2]
     ELSE 0]]

(***************************************************************************)
(* GeneralMatrix: one of three encodings of a matrix.  mat is the dense    *)
(* matrix, smat the sparse one, cmat the compressed one: a header          *)
(* (min_value, range) and one byte per element, the element's place in     *)
(* [min_value, min_value + range] on a scale of 0..255.                    *)
(***************************************************************************)
RECURSIVE NonZeroPairs(_, _)
NonZeroPairs(row, j) ==
  IF j > Len(row) THEN <<>>
  ELSE (IF row[j] # 0 THEN << <<j - 1, row[j]>> >> ELSE <<>>)
       \o NonZeroPairs(row, j + 1)

Elems(m) == {m[i][j] : i \in 1..NumRows(m), j \in 1..NumCols(m)}

MinElem(m) == CHOOSE x \in Elems(m) : \A y \in Elems(m) : x <= y

MaxElem(m) == CHOOSE x \in Elems(m) : \A y \in Elems(m) : x >= y

EmptyCompressed == [min_value |-> 0, range |-> 0, bytes |-> <<>>]

FullMatrixOf(m) ==
  [type |-> "kFullMatrix", num_rows |-> NumRows(m), num_cols |-> NumCols(m),
   mat |-> m, smat |-> <<>>, cmat |-> EmptyCompressed]

SparseMatrixOf(m) ==
  [type |-> "kSparseMatrix", num_rows |-> NumRows(m), num_cols |-> NumCols(m),
   mat |-> <<>>, smat |-> [i \in 1..NumRows(m) |-> NonZeroPairs(m[i], 1)],
   cmat |-> EmptyCompressed]

CompressedMatrixOf(m) ==
  LET lo == MinElem(m)
      range == MaxElem(m) - lo
  IN  [type |-> "kCompressedMatrix", num_rows |-> NumRows(m),
       num_cols |-> NumCols(m), mat |-> <<>>, smat |-> <<>>,
       cmat |-> [min_value |-> lo, range |-> range,
                 bytes |-> [i \in 1..NumRows(m) |-> [j \in 1..NumCols(m) |->
                    IF range = 0 THEN 0
                    ELSE ((m[i][j] - lo) * 255) \div range]]]]

\* CompressedMatrix::CopyToMat: every byte back to its value
Uncompress(cmat) ==
  [i \in 1..Len(cmat.bytes) |-> [j \in 1..Len(cmat.bytes[i]) |->
     cmat.min_value + (cmat.bytes[i][j] * cmat.range) \div 255]]

\* GeneralMatrix::GetMatrix and CuMatrix::CopyFromGeneralMat: the dense matrix
\* an encoding stands for
GetMatrix(g) ==
  CASE g.type = "kFullMatrix" -> g.mat
    [] g.type = "kSparseMatrix" -> SparseCopyToMat(g.smat, g.num_rows, g.num_cols)
    [] g.type = "kCompressedMatrix" -> Uncompress(g.cmat)

MatrixTypes == {"kFullMatrix", "kSparseMatrix", "kCompressedMatrix"}

Encode(m, type) ==
  CASE type = "kFullMatrix" -> FullMatrixOf(m)
    [] type = "kSparseMatrix" -> SparseMatrixOf(m)
    [] type = "kCompressedMatrix" -> CompressedMatrixOf(m)

(***************************************************************************)
(* The executor (NnetComputer) is a collaborator: the model keeps the      *)
(* sequence of calls made on it, each an event with the output name and    *)
(* the matrix handed over.                                                 *)
(***************************************************************************)
Event(ev, name, deriv) == [ev |-> ev, name |-> name, deriv |-> deriv]

(***************************************************************************)
(* ComputeObjectiveFunction.  output is what computer->GetOutput returns.  *)
(* The result: whether KALDI_ERR was raised, the two out-parameters, and   *)
(* the calls made on the computer.                                         *)
(***************************************************************************)
ObjfResult(error, tot_weight, tot_objf, events) ==
  [error |-> error, tot_weight |-> tot_weight, tot_objf |-> tot_objf,
   events |-> events]

\* the derivative call made whether or not supply_deriv is set
AcceptOutputDeriv_Always(output_name, supply_deriv, deriv) ==
  <<Event("AcceptOutputDeriv", output_name, deriv)>>

\* the derivative call made when supply_deriv is set
AcceptOutputDeriv(output_name, supply_deriv, deriv) ==
  IF supply_deriv THEN <<Event("AcceptOutputDeriv", output_name, deriv)>>
  ELSE <<>>

\* case kLinear with the sparse branch handing over output_deriv as it was
\* zeroed, the copy of cu_post into it left out
LinearObjective_SparseDerivNotCopied(supervision, output_name, supply_deriv, output) ==
  CASE supervision.type = "kSparseMatrix" ->
         LET cu_post == supervision.smat
         IN  ObjfResult(FALSE, FromInt(SparseSum(cu_post)),
                        FromInt(TraceMatSmat(output, cu_post)),
                        AcceptOutputDeriv(output_name, supply_deriv,
                           ZeroMatrix(NumRows(output), NumCols(output))))
    [] supervision.type = "kFullMatrix" ->
         LET cu_post == supervision.mat
         IN  ObjfResult(FALSE, FromInt(Sum(cu_post)),
                        FromInt(TraceMatMat(output, cu_post)),
                        AcceptOutputDeriv(output_name, supply_deriv, cu_post))
    [] supervision.type = "kCompressedMatrix" ->
         LET cu_post == GetMatrix(supervision)
         IN  ObjfResult(FALSE, FromInt(Sum(cu_post)),
                        FromInt(TraceMatMat(output, cu_post)),
                        AcceptOutputDeriv(output_name, supply_deriv, cu_post))

\* case kLinear: objective is x * y
LinearObjective(supervision, output_name, supply_deriv, output) ==
  CASE supervision.type = "kSparseMatrix" ->
         LET cu_post == supervision.smat
         IN  ObjfResult(FALSE, FromInt(SparseSum(cu_post)),
                        FromInt(TraceMatSmat(output, cu_post)),
                        AcceptOutputDeriv(output_name, supply_deriv,
                           SparseCopyToMat(cu_post, NumRows(output),
                                           NumCols(output))))
    [] supervision.type = "kFullMatrix" ->
         LET cu_post == supervision.mat
         IN  ObjfResult(FALSE, FromInt(Sum(cu_post)),
                        FromInt(TraceMatMat(output, cu_post)),
                        AcceptOutputDeriv(output_name, supply_deriv, cu_post))
    [] supervision.type = "kCompressedMatrix" ->
         LET cu_post == GetMatrix(supervision)
         IN  ObjfResult(FALSE, FromInt(Sum(cu_post)),
                        FromInt(TraceMatMat(output, cu_post)),
                        AcceptOutputDeriv(output_name, supply_deriv, cu_post))

\* diff as output - supervision
QuadraticDiff_Swapped(supervision, output) ==
  AddMat(output, -1, GetMatrix(supervision))

\* diff.CopyFromGeneralMat(supervision); diff.AddMat(-1.0, output)
QuadraticDiff(supervision, output) ==
  AddMat(GetMatrix(supervision), -1, output)

\* the quadratic objective normalized per element: the weight is the number
\* of elements of diff
QuadraticObjective_PerElement(supervision, output_name, supply_deriv, output) ==
  LET diff == QuadraticDiff(supervision, output)
  IN  ObjfResult(FALSE, FromInt(NumRows(diff) * NumCols(diff)),
                 MinusHalfTimes(TraceMatMat(diff, diff)),
                 AcceptOutputDeriv(output_name, supply_deriv, diff))

\* case kQuadratic: objective is -0.5 (x - y)^2
QuadraticObjective(supervision, output_name, supply_deriv, output) ==
  LET diff == QuadraticDiff(supervision, output)
  IN  ObjfResult(FALSE, FromInt(NumRows(diff)),
                 MinusHalfTimes(TraceMatMat(diff, diff)),
                 AcceptOutputDeriv(output_name, supply_deriv, diff))

ComputeObjectiveFunction(supervision, objective_type, output_name, supply_deriv, output) ==
  LET got == <<Event("GetOutput", output_name, <<>>)>>
      failed == ObjfResult(TRUE, 0, 0, got)
      body ==
        CASE objective_type = "kLinear" ->
               LinearObjective(supervision, output_name, supply_deriv, output)
          [] objective_type = "kQuadratic" ->
               QuadraticObjective(supervision, output_name, supply_deriv, output)
  IN  IF NumCols(output) # supervision.num_cols THEN failed
      ELSE IF objective_type \notin {"kLinear", "kQuadratic"} THEN failed
      ELSE [body EXCEPT !.events = got \o @]

(***************************************************************************)
(* ObjectiveFunctionInfo: the statistics of one output stream.             *)
(***************************************************************************)
\* ObjectiveFunctionInfo::ObjectiveFunctionInfo()
NewObjectiveFunctionInfo ==
  [current_phase |-> 0, tot_weight |-> 0, tot_objf |-> 0,
   tot_weight_this_phase |-> 0, tot_objf_this_phase |-> 0]

\* a line of the log: a phase report (kind "phase") or a final summary
\* (kind "total", which prints no minibatch range: start and end are -1)
LogLine(kind, name, start_minibatch, end_minibatch, avg, frames) ==
  [kind |-> kind, name |-> name, start_minibatch |-> start_minibatch,
   end_minibatch |-> end_minibatch, avg |-> avg, frames |-> frames]

\* ObjectiveFunctionInfo::PrintStatsForThisPhase: the line it logs
PrintStatsForThisPhase(info, output_name, minibatches_per_phase) ==
  LET start_minibatch == info.current_phase * minibatches_per_phase
      end_minibatch == start_minibatch + minibatches_per_phase - 1
  IN  LogLine("phase", output_name, start_minibatch, end_minibatch,
              Quotient(info.tot_objf_this_phase, info.tot_weight_this_phase),
              info.tot_weight_this_phase)

\* PrintTotalStats printing and testing the sub-totals of the current phase
InfoPrintTotalStats_ThisPhase(info, name) ==
  [line |-> LogLine("total", name, -1, -1,
                    Quotient(info.tot_objf_this_phase, info.tot_weight_this_phase),
                    info.tot_weight_this_phase),
   ans |-> (info.tot_weight_this_phase # 0)]

\* ObjectiveFunctionInfo::PrintTotalStats: the line it logs and what it returns
InfoPrintTotalStats(info, name) ==
  [line |-> LogLine("total", name, -1, -1,
                    Quotient(info.tot_objf, info.tot_weight), info.tot_weight),
   ans |-> (info.tot_weight # 0)]

\* the phase of a minibatch counter that counts from 1
Phase_OneBased(minibatch_counter, minibatches_per_phase) ==
  IntDiv(minibatch_counter + 1, minibatches_per_phase)

\* the phase of a minibatch counter
Phase(minibatch_counter, minibatches_per_phase) ==
  IntDiv(minibatch_counter, minibatches_per_phase)

\* the four additions that end UpdateStats
Accumulate(info, this_minibatch_weight, this_minibatch_tot_objf) ==
  [info EXCEPT
     !.tot_weight_this_phase = @ + this_minibatch_weight,
     !.tot_objf_this_phase = @ + this_minibatch_tot_objf,
     !.tot_weight = @ + this_minibatch_weight,
     !.tot_objf = @ + this_minibatch_tot_objf]

\* the phase change with tot_objf_this_phase left as it was
StartPhase_KeepObjf(info, phase) ==
  [info EXCEPT !.current_phase = phase,
               !.tot_weight_this_phase = 0]

\* the body of "if (phase != current_phase)" once the assertion has passed
StartPhase(info, phase) ==
  [info EXCEPT !.current_phase = phase,
               !.tot_weight_this_phase = 0,
               !.tot_objf_this_phase = 0]

\* UpdateStats with KALDI_ASSERT compiled out
UpdateStats_NoAssert(info, output_name, minibatches_per_phase, minibatch_counter, this_minibatch_weight, this_minibatch_tot_objf) ==
  LET phase == Phase(minibatch_counter, minibatches_per_phase)
  IN  IF phase # info.current_phase
      THEN [failed |-> FALSE,
            info |-> Accumulate(StartPhase(info, phase),
                        this_minibatch_weight, this_minibatch_tot_objf),
            lines |-> <<PrintStatsForThisPhase(info, output_name,
                                               minibatches_per_phase)>>]
      ELSE [failed |-> FALSE,
            info |-> Accumulate(info, this_minibatch_weight,
                                this_minibatch_tot_objf),
            lines |-> <<>>]

\* UpdateStats with the report made after the update is accumulated
UpdateStats_ReportAfter(info, output_name, minibatches_per_phase, minibatch_counter, this_minibatch_weight, this_minibatch_tot_objf) ==
  LET phase == Phase(minibatch_counter, minibatches_per_phase)
      now == Accumulate(info, this_minibatch_weight, this_minibatch_tot_objf)
  IN  IF phase # info.current_phase
      THEN IF phase # info.current_phase + 1
           THEN [failed |-> TRUE, info |-> info, lines |-> <<>>]
           ELSE [failed |-> FALSE,
                 info |-> StartPhase(now, phase),
                 lines |-> <<PrintStatsForThisPhase(now, output_name,
                                                    minibatches_per_phase)>>]
      ELSE [failed |-> FALSE, info |-> now, lines |-> <<>>]

\* UpdateStats with the sub-totals set to zero after the additions
UpdateStats_ResetAfterAdd(info, output_name, minibatches_per_phase, minibatch_counter, this_minibatch_weight, this_minibatch_tot_objf) ==
  LET phase == Phase(minibatch_counter, minibatches_per_phase)
  IN  IF phase # info.current_phase
      THEN IF phase # info.current_phase + 1
           THEN [failed |-> TRUE, info |-> info, lines |-> <<>>]
           ELSE [failed |-> FALSE,
                 info |-> StartPhase(Accumulate(info, this_minibatch_weight,
                                                this_minibatch_tot_objf), phase),
                 lines |-> <<PrintStatsForThisPhase(info, output_name,
                                                    minibatches_per_phase)>>]
      ELSE [failed |-> FALSE,
            info |-> Accumulate(info, this_minibatch_weight,
                                this_minibatch_tot_objf),
            lines |-> <<>>]

\* ObjectiveFunctionInfo::UpdateStats: whether KALDI_ASSERT failed, the
\* statistics afterwards and the lines logged
UpdateStats(info, output_name, minibatches_per_phase, minibatch_counter, this_minibatch_weight, this_minibatch_tot_objf) ==
  LET phase == Phase(minibatch_counter, minibatches_per_phase)
  IN  IF phase # info.current_phase
      THEN IF phase # info.current_phase + 1
           THEN [failed |-> TRUE, info |-> info, lines |-> <<>>]
           ELSE [failed |-> FALSE,
                 info |-> Accumulate(StartPhase(info, phase),
                             this_minibatch_weight, this_minibatch_tot_objf),
                 lines |-> <<PrintStatsForThisPhase(info, output_name,
                                                    minibatches_per_phase)>>]
      ELSE [failed |-> FALSE,
            info |-> Accumulate(info, this_minibatch_weight,
                                this_minibatch_tot_objf),
            lines |-> <<>>]

(***************************************************************************)
(* The state.                                                              *)
(***************************************************************************)
VARIABLES
  config,                     \* NnetTrainerOptions: print_interval and the two flags
  zero_stats_calls,           \* how many times ZeroComponentStats(nnet) has run
  num_minibatches_processed,  \* NnetTrainer::num_minibatches_processed_
  objf_info,                  \* NnetTrainer::objf_info_: stream name -> statistics
  log,                        \* the lines logged so far
  trace,                      \* the collaborator calls of the latest Train call
  status,                     \* "ok", "abort" (KALDI_ASSERT) or "error" (KALDI_ERR)
  ret,                        \* what PrintTotalStats returned: "none" before the call
  calls,                      \* history: every UpdateStats call made, in order
  eg_streams,                 \* history: the names, in io order, of the io entries
                              \* of the latest example that are bound to output nodes
  eg_info,                    \* history: of the latest example, the column counts
                              \* of those entries and where its first unbound name is
  objf_call                   \* a direct ComputeObjectiveFunction call: arguments, result

vars == <<config, zero_stats_calls, num_minibatches_processed, objf_info, log,
          trace, status, ret, calls, eg_streams, eg_info, objf_call>>

\* NnetTrainerOptions with the defaults of its constructor, but for print_interval
Options(print_interval, zero_component_stats, store_component_stats) ==
  [print_interval |-> print_interval,
   zero_component_stats |-> zero_component_stats,
   store_component_stats |-> store_component_stats]

NoObjfCall == [called |-> FALSE]

BoolStr(b) == IF b THEN "true" ELSE "false"

\* one UpdateStats call, as the history keeps it: its arguments and whether
\* its assertion failed
Call(name, minibatch_counter, weight, objf, failed) ==
  [name |-> name, minibatch_counter |-> minibatch_counter, weight |-> weight,
   objf |-> objf, failed |-> failed]

(***************************************************************************)
(* The network (a collaborator): its nodes, by index from 0.               *)
(***************************************************************************)
\* one input node and three output nodes: a linear one, a quadratic one and
\* one whose objective type the switch of ComputeObjectiveFunction has no case for
NnetNodes ==
  <<[name |-> "input", is_output |-> FALSE, objective_type |-> "kLinear"],
    [name |-> "output", is_output |-> TRUE, objective_type |-> "kLinear"],
    [name |-> "output2", is_output |-> TRUE, objective_type |-> "kQuadratic"],
    [name |-> "output3", is_output |-> TRUE, objective_type |-> "kOther"]>>

\* Nnet::GetNodeIndex: -1 for a name no node has
GetNodeIndex(name) ==
  IF \E i \in 1..Len(NnetNodes) : NnetNodes[i].name = name
  THEN (CHOOSE i \in 1..Len(NnetNodes) : NnetNodes[i].name = name) - 1
  ELSE -1

IsOutputNode(node_index) == NnetNodes[node_index + 1].is_output

GetNode(node_index) == NnetNodes[node_index + 1]

\* the names an io entry of an example may carry; "bogus" names no node
IoNames == {"input", "output", "output2", "output3", "bogus"}

OutputNames == {n \in IoNames : GetNodeIndex(n) >= 0 /\ IsOutputNode(GetNodeIndex(n))}

\* the supervision matrices of the examples given to Train
EgFeatures == {FullMatrixOf(<< <<0>> >>), SparseMatrixOf(<< <<1>> >>)}

\* the activations the executor computes for an output during Train
NetOutputs == {<< <<-1>> >>, << <<-1, 0>> >>}

IoEntries ==
  {[name |-> n, features |-> f] : n \in OutputNames, f \in EgFeatures}
  \cup {[name |-> n, features |-> FullMatrixOf(<< <<0>> >>)] :
          n \in IoNames \ OutputNames}

Examples == UNION {[1..n -> IoEntries] : n \in 1..MaxIo}

\* the output streams of an example
OutputsOf(eg) == {eg[i].name : i \in 1..Len(eg)} \cap OutputNames

NumOutputEntries(eg) == Cardinality({i \in 1..Len(eg) : eg[i].name \in OutputNames})

IsOutputName(n) == n \in OutputNames

\* the names of the entries bound to output nodes, in io order
OutputStreams(eg) == SelectSeq([i \in 1..Len(eg) |-> eg[i].name], IsOutputName)

IsOutputEntry(io) == io.name \in OutputNames

\* the entries bound to output nodes, in io order
OutputEntries(eg) == SelectSeq(eg, IsOutputEntry)

\* the io entries whose name no node has
UnboundEntries(eg) == {i \in 1..Len(eg) : GetNodeIndex(eg[i].name) < 0}

\* what the history keeps of an example and of the activations computed for
\* it: for every entry bound to an output node, in io order, the column counts
\* of its supervision and of its activation; and the number of such entries
\* before the first entry whose name is unbound (-1 when every name is bound)
ExampleInfo(eg, outputs) ==
  [dims |-> [j \in 1..Len(OutputEntries(eg)) |->
               <<OutputEntries(eg)[j].features.num_cols,
                 NumCols(outputs[OutputEntries(eg)[j].name])>>],
   unbound_at |->
     IF UnboundEntries(eg) = {} THEN -1
     ELSE LET first == CHOOSE i \in UnboundEntries(eg) :
                         \A k \in UnboundEntries(eg) : i <= k
          IN  Len(OutputEntries(SubSeq(eg, 1, first - 1)))]

NoExample == [dims |-> <<>>, unbound_at |-> -1]

(***************************************************************************)
(* NnetTrainer.                                                            *)
(***************************************************************************)
\* objf_info_[name]: the entry, created by the lookup when there is none
Lookup(infos, name) ==
  IF name \in DOMAIN infos THEN infos[name] ELSE NewObjectiveFunctionInfo

\* the map holding the entry just written only
Store_DropOthers(infos, name, info) ==
  [n \in {name} |-> info]

Store(infos, name, info) ==
  [n \in DOMAIN infos \cup {name} |-> IF n = name THEN info ELSE infos[n]]

\* ProcessOutput with ++num_minibatches_processed_ as the counter argument
ProcessOutput_PreIncrement(st, io, node_index, outputs) ==
  LET obj_type == GetNode(node_index).objective_type
      r == ComputeObjectiveFunction(io.features, obj_type, io.name, TRUE,
                                    outputs[io.name])
      u == UpdateStats(Lookup(st.objf_info, io.name), io.name,
                       st.print_interval, st.num_minibatches_processed + 1,
                       r.tot_weight, r.tot_objf)
  IN  IF r.error
      THEN [st EXCEPT !.status = "error", !.trace = @ \o r.events]
      ELSE [st EXCEPT
              !.num_minibatches_processed = @ + 1,
              !.objf_info = Store(@, io.name, u.info),
              !.log = @ \o u.lines,
              !.trace = @ \o r.events \o <<Event("UpdateStats", io.name, <<>>)>>,
              !.calls = Append(@, Call(io.name, st.num_minibatches_processed + 1,
                                       r.tot_weight, r.tot_objf, u.failed)),
              !.status = IF u.failed THEN "abort" ELSE "ok"]

\* ProcessOutput with the counter advanced before ComputeObjectiveFunction is
\* called, so that it is advanced for a stream whose objective fails too
ProcessOutput_CountFirst(st, io, node_index, outputs) ==
  LET obj_type == GetNode(node_index).objective_type
      r == ComputeObjectiveFunction(io.features, obj_type, io.name, TRUE,
                                    outputs[io.name])
      u == UpdateStats(Lookup(st.objf_info, io.name), io.name,
                       st.print_interval, st.num_minibatches_processed,
                       r.tot_weight, r.tot_objf)
  IN  IF r.error
      THEN [st EXCEPT !.status = "error", !.trace = @ \o r.events,
                      !.num_minibatches_processed = @ + 1]
      ELSE [st EXCEPT
              !.num_minibatches_processed = @ + 1,
              !.objf_info = Store(@, io.name, u.info),
              !.log = @ \o u.lines,
              !.trace = @ \o r.events \o <<Event("UpdateStats", io.name, <<>>)>>,
              !.calls = Append(@, Call(io.name, st.num_minibatches_processed,
                                       r.tot_weight, r.tot_objf, u.failed)),
              !.status = IF u.failed THEN "abort" ELSE "ok"]

\* one output stream of ProcessOutputs (the body of "if IsOutputNode"); st is
\* the trainer's state, outputs the activations of the executor
ProcessOutput(st, io, node_index, outputs) ==
  LET obj_type == GetNode(node_index).objective_type
      supply_deriv == TRUE
      r == ComputeObjectiveFunction(io.features, obj_type, io.name,
                                    supply_deriv, outputs[io.name])
      u == UpdateStats(Lookup(st.objf_info, io.name), io.name,
                       st.print_interval, st.num_minibatches_processed,
                       r.tot_weight, r.tot_objf)
  IN  IF r.error
      THEN [st EXCEPT !.status = "error", !.trace = @ \o r.events]
      ELSE [st EXCEPT
              !.num_minibatches_processed = @ + 1,
              !.objf_info = Store(@, io.name, u.info),
              !.log = @ \o u.lines,
              !.trace = @ \o r.events \o <<Event("UpdateStats", io.name, <<>>)>>,
              !.calls = Append(@, Call(io.name, st.num_minibatches_processed,
                                       r.tot_weight, r.tot_objf, u.failed)),
              !.status = IF u.failed THEN "abort" ELSE "ok"]

\* ProcessOutputs passing over an io entry whose name no node has
RECURSIVE ProcessOutputs_SkipUnbound(_, _, _, _)
ProcessOutputs_SkipUnbound(st, eg, i, outputs) ==
  IF i > Len(eg) \/ st.status # "ok" THEN st
  ELSE LET io == eg[i]
           node_index == GetNodeIndex(io.name)
       IN  IF node_index < 0
           THEN ProcessOutputs_SkipUnbound(st, eg, i + 1, outputs)
           ELSE IF IsOutputNode(node_index)
                THEN ProcessOutputs_SkipUnbound(
                       ProcessOutput(st, io, node_index, outputs),
                       eg, i + 1, outputs)
                ELSE ProcessOutputs_SkipUnbound(st, eg, i + 1, outputs)

\* NnetTrainer::ProcessOutputs, from io entry i on
RECURSIVE ProcessOutputs(_, _, _, _)
ProcessOutputs(st, eg, i, outputs) ==
  IF i > Len(eg) \/ st.status # "ok" THEN st
  ELSE LET io == eg[i]
           node_index == GetNodeIndex(io.name)
       IN  IF node_index < 0 THEN [st EXCEPT !.status = "abort"]
           ELSE IF IsOutputNode(node_index)
                THEN ProcessOutputs(ProcessOutput(st, io, node_index, outputs),
                                    eg, i + 1, outputs)
                ELSE ProcessOutputs(st, eg, i + 1, outputs)

\* Train with computer.Backward() before ProcessOutputs
TrainResult_BackwardFirst(st, eg, outputs) ==
  LET forward == [st EXCEPT !.trace = <<Event("Compile", "", <<>>),
                                         Event("AcceptInputs", "", <<>>),
                                         Event("Forward", "", <<>>),
                                         Event("Backward", "", <<>>)>>]
  IN  ProcessOutputs(forward, eg, 1, outputs)

\* NnetTrainer::Train, as a function of the trainer's state
TrainResult(st, eg, outputs) ==
  LET forward == [st EXCEPT !.trace = <<Event("Compile", "", <<>>),
                                         Event("AcceptInputs", "", <<>>),
                                         Event("Forward", "", <<>>)>>]
      processed == ProcessOutputs(forward, eg, 1, outputs)
  IN  IF processed.status = "ok"
      THEN [processed EXCEPT !.trace = @ \o <<Event("Backward", "", <<>>)>>]
      ELSE processed

TrainerState ==
  [print_interval |-> config.print_interval,
   num_minibatches_processed |-> num_minibatches_processed,
   objf_info |-> objf_info, log |-> log, trace |-> trace, status |-> status,
   calls |-> calls]

\* the constructor resetting the statistics when either flag is set
InitTrainer_EitherFlag(print_intervals, zero_flags, store_flags) ==
  /\ config \in {Options(l, z, s) :
                   l \in print_intervals, z \in zero_flags, s \in store_flags}
  /\ zero_stats_calls =
       IF config.store_component_stats \/ config.zero_component_stats THEN 1 ELSE 0
  /\ num_minibatches_processed = 0
  /\ objf_info = <<>>
  /\ log = <<>>
  /\ trace = <<>>
  /\ status = "ok"
  /\ ret = "none"
  /\ calls = <<>>
  /\ eg_streams = <<>>
  /\ eg_info = NoExample
  /\ objf_call = NoObjfCall

\* NnetTrainer::NnetTrainer
InitTrainer(print_intervals, zero_flags, store_flags) ==
  /\ config \in {Options(l, z, s) :
                   l \in print_intervals, z \in zero_flags, s \in store_flags}
  /\ zero_stats_calls =
       IF config.store_component_stats /\ config.zero_component_stats THEN 1 ELSE 0
  /\ num_minibatches_processed = 0
  /\ objf_info = <<>>
  /\ log = <<>>
  /\ trace = <<>>
  /\ status = "ok"
  /\ ret = "none"
  /\ calls = <<>>
  /\ eg_streams = <<>>
  /\ eg_info = NoExample
  /\ objf_call = NoObjfCall

\* a trainer with the default flags and any print_interval
Init == InitTrainer(1..MaxInterval, {TRUE}, {FALSE})

\* train on one minibatch
Train(eg, outputs) ==
  /\ status = "ok"
  /\ ret = "none"
  /\ num_minibatches_processed + NumOutputEntries(eg) <= MaxMinibatches
  /\ LET st == TrainResult(TrainerState, eg, outputs)
     IN  /\ num_minibatches_processed' = st.num_minibatches_processed
         /\ objf_info' = st.objf_info
         /\ log' = st.log
         /\ trace' = st.trace
         /\ status' = st.status
         /\ calls' = st.calls
  /\ eg_streams' = OutputStreams(eg)
  /\ eg_info' = ExampleInfo(eg, outputs)
  /\ UNCHANGED <<config, zero_stats_calls, ret, objf_call>>

\* the orders in which an unordered_map may be walked
Orders(S) ==
  {o \in [1..Cardinality(S) -> S] : \A x \in S : \E i \in 1..Cardinality(S) : o[i] = x}

\* the loop with "ans = info.PrintTotalStats(name)": the latest stream decides
RECURSIVE PrintTotalStatsLoop_Overwrite(_, _, _, _, _)
PrintTotalStatsLoop_Overwrite(infos, order, i, ans, lines) ==
  IF i > Len(order) THEN [ans |-> ans, lines |-> lines]
  ELSE LET r == InfoPrintTotalStats(infos[order[i]], order[i])
       IN  PrintTotalStatsLoop_Overwrite(infos, order, i + 1, r.ans,
                                         Append(lines, r.line))

\* the loop of NnetTrainer::PrintTotalStats over the streams in the given
\* order, from stream i on, with the value of ans and the lines logged so far
RECURSIVE PrintTotalStatsLoop(_, _, _, _, _)
PrintTotalStatsLoop(infos, order, i, ans, lines) ==
  IF i > Len(order) THEN [ans |-> ans, lines |-> lines]
  ELSE IF ans
       THEN PrintTotalStatsLoop(infos, order, i + 1, ans, lines)
       ELSE LET r == InfoPrintTotalStats(infos[order[i]], order[i])
            IN  PrintTotalStatsLoop(infos, order, i + 1, r.ans,
                                    Append(lines, r.line))

\* NnetTrainer::PrintTotalStats, called once, after the last Train
PrintTotalStats(order) ==
  /\ status = "ok"
  /\ ret = "none"
  /\ LET r == PrintTotalStatsLoop(objf_info, order, 1, FALSE, <<>>)
     IN  /\ log' = log \o r.lines
         /\ ret' = BoolStr(r.ans)
  /\ UNCHANGED <<config, zero_stats_calls, num_minibatches_processed, objf_info,
                 trace, status, calls, eg_streams, eg_info, objf_call>>

Next ==
  \/ \E eg \in Examples : \E outputs \in [OutputsOf(eg) -> NetOutputs] :
       Train(eg, outputs)
  \/ \E order \in Orders(DOMAIN objf_info) : PrintTotalStats(order)

Spec == Init /\ [][Next]_vars

\* a trainer with any setting of the two flags, and print_interval 1
InitOptions == InitTrainer({1}, BOOLEAN, BOOLEAN)

SpecOptions == InitOptions /\ [][Next]_vars

(***************************************************************************)
(* An ObjectiveFunctionInfo driven directly: UpdateStats with any          *)
(* minibatch counter, then PrintTotalStats.  The struct is public and      *)
(* "used in multiple nnet training classes"; the stream is "output" and    *)
(* the phase length is config.print_interval.                              *)
(***************************************************************************)
\* the (weight, objf) pairs of the updates: 0 and 0; 1.0 and -1.0; 1.0 and -2.0
StatSamples == {<<0, 0>>, <<FromInt(1), FromInt(-1)>>, <<FromInt(1), FromInt(-2)>>}

Counters == -1..MaxUpdates

InitInfo ==
  /\ config \in {Options(l, TRUE, FALSE) : l \in 1..MaxInterval}
  /\ zero_stats_calls = 0
  /\ num_minibatches_processed = 0
  /\ objf_info = [n \in {"output"} |-> NewObjectiveFunctionInfo]
  /\ log = <<>>
  /\ trace = <<>>
  /\ status = "ok"
  /\ ret = "none"
  /\ calls = <<>>
  /\ eg_streams = <<>>
  /\ eg_info = NoExample
  /\ objf_call = NoObjfCall

CallUpdateStats(minibatch_counter, weight, objf) ==
  /\ status = "ok"
  /\ ret = "none"
  /\ Len(calls) < MaxUpdates
  /\ LET u == UpdateStats(objf_info["output"], "output", config.print_interval,
                          minibatch_counter, weight, objf)
     IN  /\ objf_info' = [objf_info EXCEPT !["output"] = u.info]
         /\ log' = log \o u.lines
         /\ status' = IF u.failed THEN "abort" ELSE "ok"
         /\ calls' = Append(calls, Call("output", minibatch_counter, weight,
                                        objf, u.failed))
  /\ UNCHANGED <<config, zero_stats_calls, num_minibatches_processed, trace,
                 ret, eg_streams, eg_info, objf_call>>

CallPrintTotalStats ==
  /\ status = "ok"
  /\ ret = "none"
  /\ LET r == InfoPrintTotalStats(objf_info["output"], "output")
     IN  /\ log' = Append(log, r.line)
         /\ ret' = BoolStr(r.ans)
  /\ UNCHANGED <<config, zero_stats_calls, num_minibatches_processed, objf_info,
                 trace, status, calls, eg_streams, eg_info, objf_call>>

NextInfo ==
  \/ \E c \in Counters : \E s \in StatSamples : CallUpdateStats(c, s[1], s[2])
  \/ CallPrintTotalStats

SpecInfo == InitInfo /\ [][NextInfo]_vars

(***************************************************************************)
(* ComputeObjectiveFunction called directly, once, on any supervision      *)
(* matrix in any encoding, any activation with as many rows (the caller's  *)
(* duty), any objective type and either value of supply_deriv.             *)
(***************************************************************************)
Shapes == {sh \in (1..MaxElems) \X (1..MaxElems) : sh[1] * sh[2] <= MaxElems}

\* "kOther" stands for any ObjectiveType the switch has no case for
ObjectiveTypes == {"kLinear", "kQuadratic", "kOther"}

\* the arguments of a call not yet made
ObjfCall(m, t, k, d, a) ==
  [called |-> FALSE, logical |-> m, supervision |-> Encode(m, t),
   objective_type |-> k, output_name |-> "output", supply_deriv |-> d,
   output |-> a, result |-> ObjfResult(FALSE, 0, 0, <<>>)]

InitObjf ==
  /\ config = Options(1, TRUE, FALSE)
  /\ zero_stats_calls = 0
  /\ num_minibatches_processed = 0
  /\ objf_info = <<>>
  /\ log = <<>>
  /\ trace = <<>>
  /\ status = "ok"
  /\ ret = "none"
  /\ calls = <<>>
  /\ eg_streams = <<>>
  /\ eg_info = NoExample
  /\ \E sh \in Shapes : \E cols \in 1..MaxElems :
       /\ sh[1] * cols <= MaxElems
       /\ \E m \in MatricesOf(sh[1], sh[2]) : \E a \in MatricesOf(sh[1], cols) :
            \E t \in MatrixTypes : \E k \in ObjectiveTypes : \E d \in BOOLEAN :
              objf_call = ObjfCall(m, t, k, d, a)

CallComputeObjectiveFunction ==
  /\ status = "ok"
  /\ ~objf_call.called
  /\ LET r == ComputeObjectiveFunction(objf_call.supervision,
                 objf_call.objective_type, objf_call.output_name,
                 objf_call.supply_deriv, objf_call.output)
     IN  /\ objf_call' = [objf_call EXCEPT !.called = TRUE, !.result = r]
         /\ trace' = r.events
         /\ status' = IF r.error THEN "error" ELSE "ok"
  /\ UNCHANGED <<config, zero_stats_calls, num_minibatches_processed, objf_info,
                 log, ret, calls, eg_streams, eg_info>>

NextObjf == CallComputeObjectiveFunction

SpecObjf == InitObjf /\ [][NextObjf]_vars

(***************************************************************************)
(* What the claims are stated with.                                        *)
(***************************************************************************)
IsPhaseLine(l) == l.kind = "phase"

IsTotalLine(l) == l.kind = "total"

\* the phase reports logged so far, in order
PhaseReports == SelectSeq(log, IsPhaseLine)

\* the sum of f[i] over the indexes i of S
RECURSIVE SumOver(_, _)
SumOver(f, S) ==
  IF S = {} THEN 0
  ELSE LET i == CHOOSE i \in S : TRUE IN f[i] + SumOver(f, S \ {i})

\* the successful calls of the history for stream name whose counter is in lo..hi
CallsIn(name, lo, hi) ==
  {i \in 1..Len(calls) : /\ calls[i].name = name
                         /\ ~calls[i].failed
                         /\ calls[i].minibatch_counter \in lo..hi}

\* the successful calls of the history for stream name
CallsOf(name) == {i \in 1..Len(calls) : calls[i].name = name /\ ~calls[i].failed}

WeightSum(S) == SumOver([i \in 1..Len(calls) |-> calls[i].weight], S)

ObjfSum(S) == SumOver([i \in 1..Len(calls) |-> calls[i].objf], S)

\* the history is one stream fed with the counters 0, 1, 2, ...
ConsecutiveCounters ==
  \A i \in 1..Len(calls) :
    calls[i].name = "output" /\ calls[i].minibatch_counter = i - 1

\* the report of phase k - 1 of stream name, from the history: the minibatches
\* (k-1)L .. kL-1, with the average of the updates with those counters
ExpectedPhaseReport(name, k) ==
  LET L == config.print_interval
      S == CallsIn(name, (k - 1) * L, k * L - 1)
  IN  LogLine("phase", name, (k - 1) * L, k * L - 1,
              Quotient(ObjfSum(S), WeightSum(S)), WeightSum(S))

\* C1: for one stream fed by UpdateStats with the consecutive counters
\* 0, 1, 2, ... and phase length L, after the updates with counters 0..n-1 the
\* phase reports emitted are exactly those of the updates with counters k*L,
\* 1 <= k*L <= n-1, one each (so none by an update with counter < L), and the
\* k-th of them has the range [(k-1)*L, k*L-1] and the average (sum of objf) /
\* (sum of weight) of the updates with counters in that range, the values of
\* the update with counter k*L not being in it.
C1_PhaseReports ==
  ConsecutiveCounters =>
    /\ Len(PhaseReports) =
         (IF Len(calls) = 0 THEN 0 ELSE (Len(calls) - 1) \div config.print_interval)
    /\ \A k \in 1..Len(PhaseReports) :
         PhaseReports[k] = ExpectedPhaseReport("output", k)

\* C1's case: the counters 0..2 with phase length 2, so that the update with
\* counter 2 has reported phase 0, which held an update of nonzero weight
C1_Witness ==
  /\ ConsecutiveCounters
  /\ config.print_interval = 2
  /\ Len(calls) = 3
  /\ calls[3].weight # 0
  /\ Len(PhaseReports) = 1
  /\ PhaseReports[1].frames # 0

\* every update of the history is for stream name
SingleStream(name) == \A i \in 1..Len(calls) : calls[i].name = name

\* the final summary lines logged so far, in order
TotalLines == SelectSeq(log, IsTotalLine)

\* after n >= 1 updates, all of one stream: floor((n-1)/L) phase reports, for
\* the phases 0 .. floor((n-1)/L) - 1 in order (so none for the last phase,
\* floor((n-1)/L), which the latest update is in), and the running totals, and
\* the final summary once printed, hold the sums over all n updates
C2_AfterUpdates ==
  \A name \in OutputNames :
    (SingleStream(name) /\ Len(calls) >= 1) =>
      LET n == Len(calls)
          L == config.print_interval
          all == 1..n
      IN  /\ Len(PhaseReports) = (n - 1) \div L
          /\ \A k \in 1..Len(PhaseReports) :
               /\ PhaseReports[k].name = name
               /\ PhaseReports[k].start_minibatch = (k - 1) * L
               /\ PhaseReports[k].end_minibatch = k * L - 1
          /\ \A i \in all : ~calls[i].failed
          /\ name \in DOMAIN objf_info
          /\ objf_info[name].tot_weight = WeightSum(all)
          /\ objf_info[name].tot_objf = ObjfSum(all)
          /\ ret # "none" =>
               TotalLines = <<LogLine("total", name, -1, -1,
                                Quotient(ObjfSum(all), WeightSum(all)),
                                WeightSum(all))>>

\* a successful Train call on an example with exactly one output stream makes
\* exactly one update
C2_OneUpdatePerTrain ==
  (status' = "ok" /\ ret' = "none" /\ Len(eg_streams') = 1) =>
    Len(calls') = Len(calls) + 1

\* C2: when Train is called n >= 1 times on examples that each carry exactly
\* one output stream (the same name) with print_interval L, the number of
\* phase reports is floor((n-1)/L), they are those of the phases
\* 0 .. floor((n-1)/L) - 1, the last, uncompleted phase has none, and all n
\* updates are in the running totals the final summary is printed from.
C2_ReportCount == [](C2_AfterUpdates) /\ [][C2_OneUpdatePerTrain]_vars

\* C2's case: four Train calls on one stream with phase length 2, then the
\* final summary: one report, for the minibatches 0-1, and none for 2-3
C2_Witness ==
  /\ SingleStream("output")
  /\ Len(calls) = 4
  /\ config.print_interval = 2
  /\ Len(PhaseReports) = 1
  /\ ret = "true"
  /\ objf_info["output"].tot_weight_this_phase # 0

\* the latest UpdateStats call of the history
LastCall == calls[Len(calls)]

\* one step of a directly driven ObjectiveFunctionInfo: current_phase stays or
\* grows by one, changes only in an UpdateStats call, and an UpdateStats call
\* whose phase is below current_phase or above current_phase + 1 fails and
\* leaves the statistics and the log as they were
C3_Step ==
  LET cur == objf_info["output"].current_phase
      new == objf_info'["output"].current_phase
  IN  /\ new \in {cur, cur + 1}
      /\ new # cur => Len(calls') = Len(calls) + 1
      /\ Len(calls') = Len(calls) + 1 =>
           LET c == calls'[Len(calls')]
               phase == IntDiv(c.minibatch_counter, config.print_interval)
           IN  (phase < cur \/ phase > cur + 1) =>
                 /\ status' = "abort"
                 /\ c.failed
                 /\ objf_info' = objf_info
                 /\ log' = log

\* C3: current_phase starts at 0 and changes only by exactly +1 per
\* UpdateStats call; an UpdateStats call whose phase = minibatch_counter /
\* minibatches_per_phase is less than current_phase or greater than
\* current_phase + 1 fails fatally, before emitting any report and before
\* modifying current_phase, the running totals or the per-phase sub-totals.
C3_PhaseSteps ==
  /\ objf_info["output"].current_phase = 0
  /\ [][C3_Step]_vars

\* C3's case: after a successful update of nonzero weight, an update whose
\* counter skips a phase has failed
C3_Witness ==
  /\ status = "abort"
  /\ Len(calls) >= 2
  /\ LastCall.failed
  /\ IntDiv(LastCall.minibatch_counter, config.print_interval)
       > objf_info["output"].current_phase + 1
  /\ objf_info["output"].tot_weight # 0

\* the final summary lines logged for stream name
TotalLinesOf(name) ==
  {i \in 1..Len(log) : log[i].kind = "total" /\ log[i].name = name}

\* C4: NnetTrainer::PrintTotalStats emits exactly one final summary line for
\* every stream that has an entry in the per-stream statistics map, for any
\* number of streams and any values of their total weights.
C4_OneSummaryPerStream ==
  ret # "none" =>
    \A name \in DOMAIN objf_info : Cardinality(TotalLinesOf(name)) = 1

\* what ObjectiveFunctionInfo::PrintTotalStats logs and returns after the
\* successful updates of the history: their sums
C5_Summary ==
  ret # "none" =>
    LET all == CallsOf("output")
    IN  /\ log # <<>>
        /\ log[Len(log)] = LogLine("total", "output", -1, -1,
                              Quotient(ObjfSum(all), WeightSum(all)),
                              WeightSum(all))
        /\ ret = BoolStr(WeightSum(all) # 0)

\* the PrintTotalStats step changes nothing but the log and the returned value
C5_NoStateChange ==
  ret' # ret =>
    /\ objf_info' = objf_info
    /\ num_minibatches_processed' = num_minibatches_processed
    /\ config' = config
    /\ status' = status

\* C5: after any sequence of successful UpdateStats calls on a stream,
\* ObjectiveFunctionInfo::PrintTotalStats reports the average tot_objf /
\* tot_weight of the sums over all updates ever applied to that stream, and
\* returns true if and only if that total weight is not 0 (false for a stream
\* with zero total weight, including one never updated); it modifies no state.
C5_TotalStats == [](C5_Summary) /\ [][C5_NoStateChange]_vars

\* C5's case: the summary of a stream of nonzero total weight whose updates
\* are spread over two phases
C5_Witness ==
  /\ ret = "true"
  /\ Len(calls) >= 2
  /\ objf_info["output"].current_phase = 1
  /\ objf_info["output"].tot_weight # objf_info["output"].tot_weight_this_phase

\* C6: NnetTrainer::PrintTotalStats returns true if and only if at least one
\* stream in the per-stream statistics map has a nonzero total weight; it
\* returns false when no output stream was ever observed or when every
\* stream's total weight is zero.
C6_ReturnValue ==
  ret # "none" =>
    ret = BoolStr(\E name \in DOMAIN objf_info : objf_info[name].tot_weight # 0)

\* C6's case: two streams, one of zero and one of nonzero total weight
C6_Witness ==
  /\ ret = "true"
  /\ DOMAIN objf_info = {"output", "output2"}
  /\ objf_info["output"].tot_weight = 0
  /\ objf_info["output2"].tot_weight # 0

\* the counter equals the number of UpdateStats calls made, all of them for
\* entries bound to output nodes, and the k-th of them (from 0) got counter k
C7_Counters ==
  /\ num_minibatches_processed = Len(calls)
  /\ \A k \in 1..Len(calls) :
       /\ calls[k].minibatch_counter = k - 1
       /\ calls[k].name \in OutputNames

\* a successful Train call advances the counter by the number of io entries of
\* its example that are bound to output nodes
C7_Advance ==
  (status' = "ok" /\ ret' = "none") =>
    num_minibatches_processed' = num_minibatches_processed + Len(eg_streams')

\* C7: num_minibatches_processed_ starts at 0 and is shared by all streams:
\* after any sequence of Train calls it equals the number of io entries bound
\* to output nodes that have been processed (once per output stream, not once
\* per example, never for an entry bound to a non-output node), and the k-th
\* such entry overall (0-based) is passed to UpdateStats with counter k.
C7_SharedCounter ==
  /\ num_minibatches_processed = 0
  /\ [](C7_Counters)
  /\ [][C7_Advance]_vars

\* C7's case: a Train call on an example with two output streams, after
\* earlier ones
C7_Witness ==
  /\ status = "ok"
  /\ Len(eg_streams) = 2
  /\ eg_streams[1] # eg_streams[2]
  /\ num_minibatches_processed >= 3

\* the events of a whole Train call on an example with the given output streams
IsTrainTrace(t, streams) ==
  /\ Len(t) = 4 + 3 * Len(streams)
  /\ t[1] = Event("Compile", "", <<>>)
  /\ t[2] = Event("AcceptInputs", "", <<>>)
  /\ t[3] = Event("Forward", "", <<>>)
  /\ \A j \in 1..Len(streams) :
       /\ t[3 * j + 1] = Event("GetOutput", streams[j], <<>>)
       /\ t[3 * j + 2].ev = "AcceptOutputDeriv"
       /\ t[3 * j + 2].name = streams[j]
       /\ t[3 * j + 3] = Event("UpdateStats", streams[j], <<>>)
  /\ t[Len(t)] = Event("Backward", "", <<>>)

\* C8: within every successful Train call the events are, in this order and
\* with Compile, AcceptInputs, Forward and Backward exactly once: Compile,
\* AcceptInputs, Forward, then for each output stream of the example in io
\* order (GetOutput, AcceptOutputDeriv, UpdateStats), then Backward; Backward
\* never runs before every output stream has had its gradient accepted (nor
\* in a call that fails), and the call returns only after Backward.
C8_EventOrder ==
  /\ (status = "ok" /\ trace # <<>>) => IsTrainTrace(trace, eg_streams)
  /\ \A i \in 1..Len(trace) :
       trace[i].ev = "Backward" => (i = Len(trace) /\ status = "ok")

\* C8's case: a successful Train call on an example with two output streams
C8_Witness ==
  /\ status = "ok"
  /\ Len(eg_streams) = 2
  /\ eg_streams[1] # eg_streams[2]
  /\ Len(trace) = 10

IsDerivEvent(e) == e.ev = "AcceptOutputDeriv"

\* the matrices handed to AcceptOutputDeriv by the latest call, in order
Derivs == SelectSeq(trace, IsDerivEvent)

\* a direct call with the quadratic objective has returned
QuadraticCallDone ==
  /\ objf_call.called
  /\ objf_call.objective_type = "kQuadratic"
  /\ status = "ok"

\* the r x c matrix of the element-wise differences A - B
Difference(A, B) ==
  [i \in 1..Len(A) |-> [j \in 1..Len(A[1]) |-> A[i][j] - B[i][j]]]

\* the sum of the squares of the elements of M
SumOfSquares(M) ==
  SumOver([p \in (1..Len(M)) \X (1..Len(M[1])) |-> M[p[1]][p[2]] * M[p[1]][p[2]]],
          (1..Len(M)) \X (1..Len(M[1])))

\* C9 as stated: for the quadratic objective with supply_deriv = true, the
\* gradient matrix handed to AcceptOutputDeriv equals diff = activation -
\* supervision element by element, for every pair of equally shaped
\* activation and supervision matrices.
C9_GradientIsActivationMinusSupervision ==
  (QuadraticCallDone /\ objf_call.supply_deriv) =>
    /\ Len(Derivs) = 1
    /\ Derivs[1].deriv = Difference(objf_call.output, objf_call.logical)

\* C9 as amended: for the quadratic objective with supply_deriv = true, the
\* gradient matrix handed to AcceptOutputDeriv equals supervision - activation
\* element by element (the derivative of -0.5 (activation - supervision)^2 by
\* the activation), for every pair of equally shaped activation and
\* supervision matrices.
C9_GradientIsSupervisionMinusActivation ==
  (QuadraticCallDone /\ objf_call.supply_deriv) =>
    /\ Len(Derivs) = 1
    /\ Derivs[1].name = objf_call.output_name
    /\ Derivs[1].deriv = Difference(objf_call.logical, objf_call.output)

\* C9's case: a 2 x 2 activation and a supervision that differ, the gradient
\* handed over
C9_Witness ==
  /\ QuadraticCallDone
  /\ objf_call.supply_deriv
  /\ Len(objf_call.output) = 2
  /\ Len(objf_call.output[1]) = 2
  /\ objf_call.output # objf_call.logical
  /\ Len(Derivs) = 1

\* C10: for the quadratic objective, ComputeObjectiveFunction returns
\* tot_objf = -0.5 x (sum of the squared element-wise differences between
\* activation and supervision) and tot_weight = the number of rows, whatever
\* the values; when activation equals supervision, tot_objf is 0 and the
\* gradient handed to AcceptOutputDeriv is the zero matrix.
\* (Scalars are in units of one half: 2 * tot_objf = -(sum of squares) is
\* tot_objf = -0.5 x (sum of squares), and tot_weight = rows is 2 * rows.)
C10_QuadraticObjective ==
  QuadraticCallDone =>
    LET r == objf_call.result
        a == objf_call.output
        y == objf_call.logical
    IN  /\ r.tot_objf = -SumOfSquares(Difference(a, y))
        /\ r.tot_weight = 2 * Len(y)
        /\ a = y =>
             /\ r.tot_objf = 0
             /\ objf_call.supply_deriv =>
                  /\ Len(Derivs) = 1
                  /\ \A i \in 1..Len(a) : \A j \in 1..Len(a[1]) :
                       Derivs[1].deriv[i][j] = 0

\* C10's case: activation equal to a supervision of two rows that is not zero,
\* with the gradient asked for
C10_Witness ==
  /\ QuadraticCallDone
  /\ objf_call.supply_deriv
  /\ objf_call.output = objf_call.logical
  /\ Len(objf_call.logical) = 2
  /\ \E i \in 1..2 : \E j \in 1..Len(objf_call.logical[1]) :
       objf_call.logical[i][j] # 0
  /\ objf_call.result.tot_weight = 4

\* a direct call with the linear objective has returned
LinearCallDone ==
  /\ objf_call.called
  /\ objf_call.objective_type = "kLinear"
  /\ status = "ok"

\* the sum of the elements of M
SumOfElements(M) ==
  SumOver([p \in (1..Len(M)) \X (1..Len(M[1])) |-> M[p[1]][p[2]]],
          (1..Len(M)) \X (1..Len(M[1])))

\* the sum over all elements of A(i,j) * B(i,j)
SumOfProducts(A, B) ==
  SumOver([p \in (1..Len(A)) \X (1..Len(A[1])) |-> A[p[1]][p[2]] * B[p[1]][p[2]]],
          (1..Len(A)) \X (1..Len(A[1])))

\* C11: for the linear objective, ComputeObjectiveFunction returns tot_objf =
\* the sum over all elements of activation x supervision, tot_weight = the sum
\* of all supervision entries, and (when supply_deriv) hands AcceptOutputDeriv
\* a gradient equal to the supervision matrix; the three results are stated
\* with the logical supervision matrix alone, so they are the same whether it
\* is supplied in the dense, the sparse or the compressed encoding.
\* (Scalars are in units of one half: the scalar x is stored as 2x.)
C11_LinearObjective ==
  LinearCallDone =>
    LET r == objf_call.result
        a == objf_call.output
        y == objf_call.logical
    IN  /\ r.tot_objf = 2 * SumOfProducts(a, y)
        /\ r.tot_weight = 2 * SumOfElements(y)
        /\ Len(Derivs) = (IF objf_call.supply_deriv THEN 1 ELSE 0)
        /\ objf_call.supply_deriv =>
             /\ Derivs[1].name = objf_call.output_name
             /\ Derivs[1].deriv = y

\* C11's case: a sparse 2 x 2 supervision with zero and nonzero entries, an
\* activation that makes the objective nonzero, the gradient asked for
C11_Witness ==
  /\ LinearCallDone
  /\ objf_call.supply_deriv
  /\ objf_call.supervision.type = "kSparseMatrix"
  /\ Len(objf_call.logical) = 2
  /\ Len(objf_call.logical[1]) = 2
  /\ SumOfElements(objf_call.logical) \in 1..3
  /\ objf_call.result.tot_objf # 0
  /\ Len(Derivs) = 1

\* the objective type of the node an output stream is bound to
ObjectiveTypeOf(name) == GetNode(GetNodeIndex(name)).objective_type

\* the output entries of an example, by their place among its output entries,
\* for which ComputeObjectiveFunction must fail: the column counts of
\* supervision and activation differ, or the objective is not linear or quadratic
FailingStreams(streams, info) ==
  {j \in 1..Len(streams) :
     \/ info.dims[j][1] # info.dims[j][2]
     \/ ObjectiveTypeOf(streams[j]) \notin {"kLinear", "kQuadratic"}}

FirstFailing(streams, info) ==
  CHOOSE j \in FailingStreams(streams, info) :
    \A k \in FailingStreams(streams, info) : j <= k

\* the latest example has an output entry that must fail, no entry with an
\* unbound name comes before it, and no assertion of UpdateStats has failed
ObjectiveMustFail ==
  /\ FailingStreams(eg_streams, eg_info) # {}
  /\ \/ eg_info.unbound_at = -1
     \/ eg_info.unbound_at >= FirstFailing(eg_streams, eg_info)
  /\ \A i \in 1..Len(calls) : ~calls[i].failed

\* Train fails with KALDI_ERR exactly when the objective of an entry must
\* fail; it has then stopped in the failing call, right after GetOutput: the
\* entries before it have each had their three events, the failing one has had
\* no AcceptOutputDeriv, and Backward has not run
C12_Failure ==
  /\ ObjectiveMustFail => status = "error"
  /\ status = "error" =>
       /\ ObjectiveMustFail
       /\ LET k == FirstFailing(eg_streams, eg_info)
          IN  /\ Len(trace) = 3 * k + 1
              /\ trace[Len(trace)] = Event("GetOutput", eg_streams[k], <<>>)
              /\ \A i \in 1..Len(trace) :
                   /\ trace[i].ev # "Backward"
                   /\ trace[i].ev = "AcceptOutputDeriv" =>
                        /\ i < 3 * k
                        /\ trace[i].name # eg_streams[k]

\* the Train call that fails in the objective of its k-th output entry has
\* advanced the counter and made an UpdateStats call for the k - 1 entries
\* before it only, and has left the statistics of the failing stream as they
\* were (with no entry when it had none)
C12_Step ==
  (status = "ok" /\ status' = "error") =>
    LET k == FirstFailing(eg_streams', eg_info')
        name == eg_streams'[k]
    IN  /\ num_minibatches_processed' = num_minibatches_processed + (k - 1)
        /\ Len(calls') = Len(calls) + (k - 1)
        /\ \A i \in (Len(calls) + 1)..Len(calls') : calls'[i].name # name
        /\ IF name \in DOMAIN objf_info
           THEN objf_info'[name] = objf_info[name]
           ELSE name \notin DOMAIN objf_info'

\* C12: ComputeObjectiveFunction fails fatally whenever the activation's column
\* count differs from the supervision's, and whenever the objective kind is
\* neither linear nor quadratic; in every such failure no AcceptOutputDeriv
\* call has been made by the failing call, and when the failure occurs inside
\* Train the failing stream's statistics are not updated, the minibatch counter
\* is not advanced for it, and Backward is not run.
C12_ObjectiveFailures == [](C12_Failure) /\ [][C12_Step]_vars

\* C12's case: a Train call whose first output stream succeeded and whose
\* second, a stream that has statistics from an earlier call, failed on its
\* column counts
C12_Witness ==
  /\ status = "error"
  /\ Len(eg_streams) = 2
  /\ FirstFailing(eg_streams, eg_info) = 2
  /\ eg_info.dims[2][1] # eg_info.dims[2][2]
  /\ ObjectiveTypeOf(eg_streams[2]) = "kQuadratic"
  /\ eg_streams[2] \in DOMAIN objf_info
  /\ objf_info[eg_streams[2]].tot_weight # 0

\* a direct ComputeObjectiveFunction call has returned without an error
ObjfCallDone == objf_call.called /\ status = "ok"

\* after a successful call the calls made on the executor are GetOutput (a
\* read of the activation) and then one AcceptOutputDeriv for the output name
\* if supply_deriv is set, none if it is not
C13_ExecutorCalls ==
  ObjfCallDone =>
    /\ trace[1] = Event("GetOutput", objf_call.output_name, <<>>)
    /\ Len(trace) = (IF objf_call.supply_deriv THEN 2 ELSE 1)
    /\ Len(Derivs) = (IF objf_call.supply_deriv THEN 1 ELSE 0)
    /\ objf_call.supply_deriv =>
         /\ trace[2].ev = "AcceptOutputDeriv"
         /\ trace[2].name = objf_call.output_name
         /\ Len(trace[2].deriv) = Len(objf_call.output)
         /\ Len(trace[2].deriv[1]) = Len(objf_call.output[1])

\* the call changes no statistics, counter, log or option
C13_Frame ==
  (~objf_call.called /\ objf_call'.called) =>
    /\ objf_info' = objf_info
    /\ num_minibatches_processed' = num_minibatches_processed
    /\ log' = log
    /\ calls' = calls
    /\ config' = config
    /\ zero_stats_calls' = zero_stats_calls

\* C13: a successful ComputeObjectiveFunction call makes exactly one
\* AcceptOutputDeriv call, for the given output name, when supply_deriv is
\* true, and makes no AcceptOutputDeriv call when supply_deriv is false; this
\* holds for both objective kinds and all three supervision encodings, and the
\* call has no other effect on the executor (it reads the activation with
\* GetOutput) or on any statistics.
C13_OneDerivCall == [](C13_ExecutorCalls) /\ [][C13_Frame]_vars

\* C13's case: a successful call on a sparse supervision with the linear
\* objective and supply_deriv false: GetOutput is the only call made
C13_Witness ==
  /\ ObjfCallDone
  /\ ~objf_call.supply_deriv
  /\ objf_call.objective_type = "kLinear"
  /\ objf_call.supervision.type = "kSparseMatrix"
  /\ objf_call.result.tot_weight # 0
  /\ Len(trace) = 1

\* the successful calls of the history for stream name whose phase, the
\* quotient of counter by phase length truncated towards zero, is p
CallsInPhase(name, p) ==
  {i \in CallsOf(name) :
     IntDiv(calls[i].minibatch_counter, config.print_interval) = p}

\* every stream's totals are the sums over its successful updates, and its
\* sub-totals the sums over those of them whose phase is current_phase
C14_Sums ==
  \A name \in DOMAIN objf_info :
    LET info == objf_info[name]
        now == CallsInPhase(name, info.current_phase)
    IN  /\ info.tot_weight = WeightSum(CallsOf(name))
        /\ info.tot_objf = ObjfSum(CallsOf(name))
        /\ info.tot_weight_this_phase = WeightSum(now)
        /\ info.tot_objf_this_phase = ObjfSum(now)

\* a step changes a stream's statistics only by a successful update: it adds
\* the update to the totals, and to the sub-totals too unless current_phase
\* changes with it, in which case they become the update alone
C14_Step ==
  \A name \in DOMAIN objf_info :
    LET old == objf_info[name]
        new == objf_info'[name]
        updated == /\ Len(calls') = Len(calls) + 1
                   /\ calls'[Len(calls')].name = name
                   /\ ~calls'[Len(calls')].failed
        c == calls'[Len(calls')]
    IN  /\ ~updated => new = old
        /\ updated =>
             /\ new.tot_weight = old.tot_weight + c.weight
             /\ new.tot_objf = old.tot_objf + c.objf
             /\ new.current_phase = old.current_phase =>
                  /\ new.tot_weight_this_phase = old.tot_weight_this_phase + c.weight
                  /\ new.tot_objf_this_phase = old.tot_objf_this_phase + c.objf
             /\ new.current_phase # old.current_phase =>
                  /\ new.tot_weight_this_phase = c.weight
                  /\ new.tot_objf_this_phase = c.objf

\* C14: in every reachable state, each stream's tot_weight and tot_objf equal
\* the sums of the weights and objectives of all successful UpdateStats calls
\* on that stream since construction (they are only added to, never reset or
\* overwritten), and tot_weight_this_phase and tot_objf_this_phase equal the
\* sums over exactly those updates whose phase equals current_phase; the
\* per-phase sub-totals are set to zero only when a phase boundary is crossed.
C14_Accumulation == [](C14_Sums) /\ [][C14_Step]_vars

\* C14's case: a stream in its second phase, with nonzero sub-totals in both
\* phases
C14_Witness ==
  /\ status = "ok"
  /\ Len(calls) = 3
  /\ objf_info["output"].current_phase = 1
  /\ objf_info["output"].tot_objf_this_phase # 0
  /\ objf_info["output"].tot_objf # objf_info["output"].tot_objf_this_phase
  /\ objf_info["output"].tot_weight = 4

\* the latest example has an entry with an unbound name, the objective of no
\* output entry before it must fail, and no assertion of UpdateStats has failed
UnboundMustAbort ==
  /\ eg_info.unbound_at # -1
  /\ \A j \in FailingStreams(eg_streams, eg_info) : j > eg_info.unbound_at
  /\ \A i \in 1..Len(calls) : ~calls[i].failed

\* Train fails on the assertion node_index >= 0 exactly when the example has
\* an entry with an unbound name that the loop gets to; it has then stopped at
\* that entry: the output entries before it have each had their three events,
\* nothing has been done for the unbound entry, Backward has not run, and no
\* name that is not an output node's has statistics.  A Train call on an
\* example with no unbound name does not fail on that assertion, whatever
\* entries bound to non-output nodes it has.
C15_Failure ==
  /\ UnboundMustAbort => status = "abort"
  /\ (status = "abort" /\ \A i \in 1..Len(calls) : ~calls[i].failed) =>
       /\ UnboundMustAbort
       /\ LET u == eg_info.unbound_at
          IN  /\ Len(trace) = 3 + 3 * u
              /\ \A j \in 1..u :
                   /\ trace[3 * j + 1] = Event("GetOutput", eg_streams[j], <<>>)
                   /\ trace[3 * j + 2].ev = "AcceptOutputDeriv"
                   /\ trace[3 * j + 3] = Event("UpdateStats", eg_streams[j], <<>>)
              /\ \A i \in 1..Len(trace) : trace[i].ev # "Backward"
  /\ DOMAIN objf_info \subseteq OutputNames
  /\ \A i \in 1..Len(calls) : calls[i].name \in OutputNames

\* the Train call that stops at an unbound name has advanced the counter and
\* made an UpdateStats call for the output entries before it only; a Train
\* call that succeeds has done so for the entries bound to output nodes only
C15_Step ==
  /\ (/\ status = "ok"
      /\ status' = "abort"
      /\ \A i \in 1..Len(calls') : ~calls'[i].failed) =>
       /\ num_minibatches_processed' =
            num_minibatches_processed + eg_info'.unbound_at
       /\ Len(calls') = Len(calls) + eg_info'.unbound_at
       /\ \A j \in 1..eg_info'.unbound_at :
            calls'[Len(calls) + j].name = eg_streams'[j]
       /\ DOMAIN objf_info' =
            DOMAIN objf_info \cup {eg_streams'[j] : j \in 1..eg_info'.unbound_at}
  /\ (status = "ok" /\ status' = "ok" /\ ret' = "none") =>
       /\ num_minibatches_processed' =
            num_minibatches_processed + Len(eg_streams')
       /\ Len(calls') = Len(calls) + Len(eg_streams')
       /\ \A j \in 1..Len(eg_streams') :
            calls'[Len(calls) + j].name = eg_streams'[j]
       /\ IsTrainTrace(trace', eg_streams')

\* C15: Train fails fatally when an io entry of the example has a name that
\* is not bound to any graph node (GetNodeIndex returns a negative index): for
\* that entry no objective is evaluated, no gradient is accepted, no
\* statistics are updated and the counter is not advanced, and Backward is not
\* run; by contrast an entry bound to a node that is not an output node is
\* skipped without error and without any of those effects.
C15_UnboundName == [](C15_Failure) /\ [][C15_Step]_vars

\* C15's case: a Train call, after an earlier one, that has processed one
\* output stream and then stopped at an unbound name
C15_Witness ==
  /\ status = "abort"
  /\ eg_info.unbound_at = 1
  /\ Len(calls) >= 2
  /\ \A i \in 1..Len(calls) : ~calls[i].failed
  /\ Len(trace) = 6
  /\ trace[6] = Event("UpdateStats", eg_streams[1], <<>>)

\* the names of the UpdateStats calls that a step adds to the history
UpdatedNames == {calls'[i].name : i \in (Len(calls) + 1)..Len(calls')}

\* the first call of the history for stream name
FirstCallOf(name) ==
  calls[CHOOSE i \in 1..Len(calls) :
          /\ calls[i].name = name
          /\ \A k \in 1..(i - 1) : calls[k].name # name]

\* the map has an entry for exactly the names UpdateStats has been called
\* for, all of them names of output nodes; and every stream started from
\* phase 0 and zero totals: its first call failed if and only if its phase was
\* not 0 or 1, a stream whose only call failed has the statistics of a new
\* entry, and the totals are the sums over the stream's successful calls
C16_Entries ==
  /\ DOMAIN objf_info = {calls[i].name : i \in 1..Len(calls)}
  /\ DOMAIN objf_info \subseteq OutputNames
  /\ \A name \in DOMAIN objf_info :
       LET first == FirstCallOf(name)
           phase == IntDiv(first.minibatch_counter, config.print_interval)
       IN  /\ first.failed <=> phase \notin {0, 1}
           /\ first.failed => objf_info[name] = NewObjectiveFunctionInfo
           /\ objf_info[name].tot_weight = WeightSum(CallsOf(name))
           /\ objf_info[name].tot_objf = ObjfSum(CallsOf(name))

\* a step removes no entry, adds entries only for the names it calls
\* UpdateStats for, and leaves the statistics of every other stream as they were
C16_Step ==
  /\ DOMAIN objf_info \subseteq DOMAIN objf_info'
  /\ DOMAIN objf_info' = DOMAIN objf_info \cup UpdatedNames
  /\ \A name \in DOMAIN objf_info \ UpdatedNames :
       objf_info'[name] = objf_info[name]

\* C16: the per-stream statistics map has exactly one entry per distinct
\* output-stream name that has been processed (that UpdateStats has been
\* called for): an entry is created (with phase 0 and all totals 0) the first
\* time that name is processed as an output stream, entries are never removed,
\* no entry is ever created for an io name bound to a non-output node, and an
\* update for one stream name leaves the statistics of every other stream
\* unchanged.
C16_StatisticsMap == [](C16_Entries) /\ [][C16_Step]_vars

\* C16's case: two streams with statistics, the latest Train call having
\* updated one of them only, the other created after it
C16_Witness ==
  /\ status = "ok"
  /\ DOMAIN objf_info = {"output", "output2"}
  /\ eg_streams = <<"output">>
  /\ Len(calls) = 3
  /\ calls[1].name = "output"
  /\ calls[2].name = "output2"
  /\ objf_info["output2"].tot_weight # 0
  /\ objf_info["output2"].tot_objf # 0

\* C17: constructing an NnetTrainer resets the model's component statistics
\* exactly once if and only if both store_component_stats and
\* zero_component_stats are true; with the default options
\* (zero_component_stats = true, store_component_stats = false) no reset
\* happens, and no Train call ever resets them: in every state, after any
\* Train and PrintTotalStats calls, the number of resets made is 1 when both
\* flags are set and 0 otherwise.
C17_ResetOnce ==
  /\ zero_stats_calls =
       (IF config.store_component_stats = TRUE /\ config.zero_component_stats = TRUE
        THEN 1 ELSE 0)
  /\ (config.zero_component_stats = TRUE /\ config.store_component_stats = FALSE) =>
       zero_stats_calls = 0

\* C17's case: a trainer built with both flags set that has trained on two
\* examples since
C17_Witness ==
  /\ config.store_component_stats
  /\ config.zero_component_stats
  /\ zero_stats_calls = 1
  /\ status = "ok"
  /\ Len(calls) >= 2
  /\ Len(eg_streams) = 1

\* the latest example, and so every example so far, has bound names only,
\* matching column counts and objectives that are handled
ExamplesWellFormed ==
  /\ eg_info.unbound_at = -1
  /\ FailingStreams(eg_streams, eg_info) = {}

\* C18: for every sequence of NnetTrainer::Train calls on examples whose io
\* names are all bound to nodes and whose dimensions match (including examples
\* with several output streams, and output streams that first appear only in
\* a later example), every UpdateStats call receives a counter whose phase is
\* equal to, or exactly one greater than, that stream's current_phase, so
\* Train never fails on the phase-consistency check.
C18_NoPhaseFailure ==
  ExamplesWellFormed =>
    /\ status # "abort"
    /\ \A i \in 1..Len(calls) : ~calls[i].failed

\* C19: immediately after an UpdateStats call that crosses a phase boundary
\* (phase == current_phase + 1), current_phase equals the old value plus one
\* and the per-phase sub-totals equal exactly the weight and objective of that
\* single update (the report for the completed phase was produced from the
\* old sub-totals before they were reset), while the running totals equal
\* their old values plus that update.
C19_PhaseBoundary ==
  [][(/\ Len(calls') = Len(calls) + 1
      /\ IntDiv(calls'[Len(calls')].minibatch_counter, config.print_interval)
           = objf_info["output"].current_phase + 1) =>
       LET old == objf_info["output"]
           new == objf_info'["output"]
           c == calls'[Len(calls')]
           L == config.print_interval
       IN  /\ ~c.failed
           /\ status' = "ok"
           /\ new.current_phase = old.current_phase + 1
           /\ new.tot_weight_this_phase = c.weight
           /\ new.tot_objf_this_phase = c.objf
           /\ new.tot_weight = old.tot_weight + c.weight
           /\ new.tot_objf = old.tot_objf + c.objf
           /\ log' = Append(log,
                LogLine("phase", "output", old.current_phase * L,
                        old.current_phase * L + L - 1,
                        Quotient(old.tot_objf_this_phase, old.tot_weight_this_phase),
                        old.tot_weight_this_phase))]_vars

\* C19's case: an update of nonzero weight and objective has crossed from a
\* phase with nonzero sub-totals that differ from its own
C19_Witness ==
  /\ status = "ok"
  /\ Len(calls) >= 2
  /\ Len(PhaseReports) >= 1
  /\ PhaseReports[Len(PhaseReports)].frames # 0
  /\ objf_info["output"].current_phase =
       IntDiv(LastCall.minibatch_counter, config.print_interval)
  /\ objf_info["output"].current_phase >= 1
  /\ objf_info["output"].tot_weight_this_phase = LastCall.weight
  /\ objf_info["output"].tot_objf_this_phase = LastCall.objf
  /\ LastCall.objf # 0
  /\ objf_info["output"].tot_objf # LastCall.objf
  /\ log[Len(log)].kind = "phase"

\* C20: every phase report emitted for a stream during any sequence of Train
\* calls describes a phase in which that stream received at least one update,
\* i.e. a report is never produced from per-phase sub-totals that are still at
\* their initial zero values (which would print the average 0/0).
C20_ReportsHaveUpdates ==
  \A k \in 1..Len(PhaseReports) :
    LET r == PhaseReports[k]
    IN  CallsIn(r.name, r.start_minibatch, r.end_minibatch) # {}

====
